---- MODULE Spec2Model ----
(***************************************************************************)
(* A model of train.py (pytorch-grasping): the AverageMeter accumulator,   *)
(* the accuracy() grasp metric, the train()/validate() epoch loops and the *)
(* cross-validation loop of main().                                        *)
(*                                                                         *)
(* Numbers.  Python floats are modelled as exact rationals <<num, den>>    *)
(* in lowest terms (den > 0).  A float that may also be nan, inf or a      *)
(* raised ZeroDivisionError is a record [kind, v].  Angles are integers in *)
(* milliradians; lengths are small naturals.                               *)
(***************************************************************************)
EXTENDS Integers, Sequences, FiniteSets, TLC

VARIABLES
    entry,   \* which entry point of the module is being exercised
    meter,   \* one AverageMeter object
    touched, \* observation: meter was updated at least once, then reset
    call,    \* the activation of accuracy(): position, lists built so far
    seen,    \* observation: what the rows handed to accuracy() were like
    epoch,   \* the activation of train() / validate()
    tally,   \* observation: samples / matching samples fully processed
    run      \* the activation of main()

vars == <<entry, meter, touched, call, seen, epoch, tally, run>>

----------------------------------------------------------------------------
(* Bounds of the model *)

MaxCount == 4
MaxWeight == 2
MaxCoord == 1
MaxDim == 2
MaxRows == 2
MaxBatchSize == 4
MaxBatches == 2
MaxFolds == 5

----------------------------------------------------------------------------
(* Exact arithmetic standing for Python float arithmetic *)

Abs(n) == IF n < 0 THEN -n ELSE n

Max(a, b) == IF a >= b THEN a ELSE b

Min(a, b) == IF a <= b THEN a ELSE b

RECURSIVE GCD(_, _)
GCD(a, b) == IF b = 0 THEN a ELSE GCD(b, a % b)

\* n / d for d > 0, in lowest terms
Rat(n, d) == LET g == GCD(Abs(n), d) IN <<n \div g, d \div g>>

Zero == <<0, 1>>

RatAdd(p, q) == Rat(p[1] * q[2] + q[1] * p[2], p[2] * q[2])

RatSub(p, q) == Rat(p[1] * q[2] - q[1] * p[2], p[2] * q[2])

\* p * n for an integer n
RatScale(p, n) == Rat(p[1] * n, p[2])

\* p / q for q > 0
RatDiv(p, q) == Rat(p[1] * q[2], p[2] * q[1])

RatLT(p, q) == p[1] * q[2] < q[1] * p[2]

\* a float result: a number, nan, inf, or the exception raised instead
Num(p) == [kind |-> "num", v |-> p]

NaN == [kind |-> "nan", v |-> Zero]

Inf == [kind |-> "inf", v |-> Zero]

ZeroDivisionError == [kind |-> "ZeroDivisionError", v |-> Zero]

RECURSIVE SeqSum(_)
SeqSum(s) == IF s = <<>> THEN 0 ELSE Head(s) + SeqSum(Tail(s))

----------------------------------------------------------------------------
(* AverageMeter *)

\* reset(): val, avg, sum, count := 0
reset == [val |-> Zero, avg |-> Zero, sum |-> Zero, count |-> 0]

\* a plausible slip: the average is not recomputed
updateStaleAvg(m, val, n) ==
    [val |-> val, avg |-> m.avg, sum |-> RatAdd(m.sum, RatScale(val, n)),
     count |-> m.count + n]

\* update(val, n), n > 0
update(m, val, n) ==
    LET s == RatAdd(m.sum, RatScale(val, n))
        c == m.count + n
    IN  [val |-> val, avg |-> RatDiv(s, <<c, 1>>), sum |-> s, count |-> c]

MeterValues == {<<-1, 1>>, <<0, 1>>, <<1, 2>>, <<3, 1>>}

MeterReset ==
    /\ entry = "meter"
    /\ meter' = reset
    /\ touched' = (touched \/ meter.count > 0)
    /\ UNCHANGED <<entry, call, seen, epoch, tally, run>>

MeterUpdate ==
    /\ entry = "meter"
    /\ \E val \in MeterValues, n \in 1..MaxWeight :
          /\ meter.count + n <= MaxCount
          /\ meter' = update(meter, val, n)
    /\ UNCHANGED <<entry, touched, call, seen, epoch, tally, run>>

----------------------------------------------------------------------------
(* accuracy(prediction, target) *)

\* A grasp box is <<centerX, centerY, width, height, angle>>; Python's
\* pred[2], pred[3], prediction[:, -1] are box[3], box[4], box[5] here.
Coords == 0..MaxCoord

Dims == 0..MaxDim

\* milliradians: 523 is just under 30 degrees, 524 just over
Angles == {0, 523, 524}

PredBoxes == {<<x, 0, w, h, a>> : x \in Coords, w \in Dims, h \in Dims, a \in Angles}

TargetBoxes == {<<0, 0, w, h, a>> : w \in Dims, h \in Dims, a \in Angles}

\* np.radians(deg), in milliradians
radians(deg) == Rat(deg * 3141593, 180000)

\* the length two centred extents share, doubled (extents are c -/+ s/2)
Overlap2(c1, s1, c2, s2) ==
    Max(0, Min(2 * c1 + s1, 2 * c2 + s2) - Max(2 * c1 - s1, 2 * c2 - s2))

\* intersection_area(pred, tar): the common area of the two boxes taken as
\* (x, y, width, height) rectangles about their centres
intersection_area(a, b) ==
    Rat(Overlap2(a[1], a[3], b[1], b[3]) * Overlap2(a[2], a[4], b[2], b[4]), 4)

\* one entry of thetas: (np.abs(p - t) < np.radians(30)).astype(int)
theta(pred, tar) ==
    IF RatLT(<<Abs(pred[5] - tar[5]), 1>>, radians(30)) THEN 1 ELSE 0

\* union = pred[2] * pred[3] + tar[2] * tar[3] - intersection
union(pred, tar) ==
    RatSub(<<pred[3] * pred[4] + tar[3] * tar[4], 1>>, intersection_area(pred, tar))

\* intersection / union.  Two Python floats: a zero divisor raises
\* ZeroDivisionError.  A numpy scalar numerator (pyScalar = FALSE): a zero
\* divisor gives nan (0/0) or inf with a warning.  Which of the two
\* intersection_area returns is decided outside train.py.
iou(pred, tar, pyScalar) ==
    LET i == intersection_area(pred, tar)
        u == union(pred, tar)
    IN  IF u # Zero THEN Num(RatDiv(i, u))
        ELSE IF pyScalar THEN ZeroDivisionError
        ELSE IF i = Zero THEN NaN ELSE Inf

\* a plausible slip: the comparison is the wrong way round
overThresholdReversed(f) ==
    CASE f.kind = "num" -> IF RatLT(f.v, <<1, 4>>) THEN 1 ELSE 0
      [] OTHER -> 0

\* one entry of (np.array(ious) > 0.25).astype(int); nan > 0.25 is False
overThreshold(f) ==
    CASE f.kind = "num" -> IF RatLT(<<1, 4>>, f.v) THEN 1 ELSE 0
      [] f.kind = "inf" -> 1
      [] OTHER -> 0

\* a plausible slip: np.sum in place of np.mean
sumOfProduct(thetas, ious) ==
    IF Len(thetas) = 0 THEN NaN
    ELSE Num(Rat(SeqSum([k \in 1..Len(thetas) |-> thetas[k] * ious[k]]), 1))

\* a plausible slip: either condition is enough
meanOfEither(thetas, ious) ==
    IF Len(thetas) = 0 THEN NaN
    ELSE Num(Rat(SeqSum([k \in 1..Len(thetas) |-> Max(thetas[k], ious[k])]),
                 Len(thetas)))

\* np.mean(thetas * ious); the mean of an empty array is nan (with a warning)
meanOfProduct(thetas, ious) ==
    IF Len(thetas) = 0 THEN NaN
    ELSE Num(Rat(SeqSum([k \in 1..Len(thetas) |-> thetas[k] * ious[k]]),
                 Len(thetas)))

\* accuracy() on a whole batch, a sequence of [pred, tar] rows: the value
\* returned, or the exception raised in the loop
accuracy(batch, pyScalar) ==
    LET n == Len(batch)
        thetas == [k \in 1..n |-> theta(batch[k].pred, batch[k].tar)]
        fs == [k \in 1..n |-> iou(batch[k].pred, batch[k].tar, pyScalar)]
    IN  IF \E k \in 1..n : fs[k].kind = "ZeroDivisionError"
        THEN ZeroDivisionError
        ELSE meanOfProduct(thetas, [k \in 1..n |-> overThreshold(fs[k])])

\* What the rows were like, in the terms of the metric's definition:
\* orientation within 30 degrees and overlap over a quarter of the union.
OrientationAgrees(pred, tar) == Abs(pred[5] - tar[5]) <= 523

OverlapAgrees(pred, tar) ==
    LET i4 == Overlap2(pred[1], pred[3], tar[1], tar[3])
              * Overlap2(pred[2], pred[4], tar[2], tar[4])
        u4 == 4 * pred[3] * pred[4] + 4 * tar[3] * tar[4] - i4
    IN  u4 > 0 /\ 4 * i4 > u4

BothAgree(pred, tar) == OrientationAgrees(pred, tar) /\ OverlapAgrees(pred, tar)

ZeroUnion(pred, tar) == pred[3] * pred[4] = 0 /\ tar[3] * tar[4] = 0

Observe(s, pred, tar) ==
    [rows |-> s.rows + 1,
     both |-> s.both + (IF BothAgree(pred, tar) THEN 1 ELSE 0),
     onlyOne |-> s.onlyOne \/ (OrientationAgrees(pred, tar) # OverlapAgrees(pred, tar)),
     same |-> s.same /\ pred = tar,
     positive |-> s.positive /\ Min(Min(pred[3], pred[4]), Min(tar[3], tar[4])) > 0,
     degenerate |-> s.degenerate \/ ZeroUnion(pred, tar)]

NothingSeen ==
    [rows |-> 0, both |-> 0, onlyOne |-> FALSE, same |-> TRUE, positive |-> TRUE,
     degenerate |-> FALSE]

IdleCall ==
    [pc |-> "idle", size |-> 0, pyScalar |-> FALSE, thetas |-> <<>>,
     ious |-> <<>>, result |-> NaN]

\* accuracy(prediction, target) is entered with a batch of n rows
AccuracyCall ==
    /\ entry = "accuracy"
    /\ call.pc = "idle"
    /\ \E n \in 0..MaxRows, py \in BOOLEAN :
          call' = [IdleCall EXCEPT !.pc = "loop", !.size = n, !.pyScalar = py]
    /\ UNCHANGED <<entry, meter, touched, seen, epoch, tally, run>>

\* one row: its thetas entry, and one pass of the loop over zip(...)
AccuracyRow ==
    /\ entry = "accuracy"
    /\ call.pc = "loop"
    /\ Len(call.ious) < call.size
    /\ \E pred \in PredBoxes, tar \in TargetBoxes :
          LET f == iou(pred, tar, call.pyScalar)
          IN  /\ call' = IF f.kind = "ZeroDivisionError"
                         THEN [call EXCEPT !.pc = "raised", !.result = f]
                         ELSE [call EXCEPT
                                 !.thetas = Append(@, theta(pred, tar)),
                                 !.ious = Append(@, overThreshold(f))]
              /\ seen' = Observe(seen, pred, tar)
    /\ UNCHANGED <<entry, meter, touched, epoch, tally, run>>

\* return np.mean(thetas * ious)
AccuracyReturn ==
    /\ entry = "accuracy"
    /\ call.pc = "loop"
    /\ Len(call.ious) = call.size
    /\ call' = [call EXCEPT !.pc = "returned",
                            !.result = meanOfProduct(call.thetas, call.ious)]
    /\ UNCHANGED <<entry, meter, touched, seen, epoch, tally, run>>

----------------------------------------------------------------------------
(* train(train_loader, model, criterion, optimizer, epoch) and              *)
(* validate(val_loader, model, criterion).  The timing statistics           *)
(* (batch_time, data_time) hold wall-clock readings only and are left out.  *)

\* Rows the model and the loader may produce: a matching pair, a pair that
\* fails only the overlap test, and a pair of two zero-area boxes.
EpochRows ==
    {[pred |-> <<0, 0, 2, 2, 0>>, tar |-> <<0, 0, 2, 2, 0>>],
     [pred |-> <<0, 0, 1, 1, 0>>, tar |-> <<0, 0, 2, 2, 0>>],
     [pred |-> <<0, 0, 0, 0, 0>>, tar |-> <<0, 0, 0, 0, 0>>]}

RECURSIVE SeqsUpTo(_, _)
SeqsUpTo(S, n) ==
    IF n = 0 THEN {<<>>}
    ELSE LET shorter == SeqsUpTo(S, n - 1)
         IN  shorter \cup {Append(q, x) : q \in shorter, x \in S}

\* a loader never yields an empty batch
EpochBatches == SeqsUpTo(EpochRows, MaxBatchSize) \ {<<>>}

\* loss.data[0]: what the criterion yields is opaque here
LossValues == {<<5, 2>>}

NoReturn == [kind |-> "None", losses |-> reset, acc |-> reset]

IdleEpoch ==
    [fn |-> "none", pc |-> "idle", mode |-> "none", supply |-> 0, i |-> 0,
     pyScalar |-> FALSE, losses |-> reset, acc |-> reset, calls |-> <<>>,
     returned |-> NoReturn]

\* accuracy(output.data, target.data), tabulated over the batches
Scores == [py \in BOOLEAN |-> [b \in EpochBatches |-> accuracy(b, py)]]

NoTally == [samples |-> 0, both |-> 0]

RECURSIVE CountBoth(_)
CountBoth(batch) ==
    IF batch = <<>> THEN 0
    ELSE (IF BothAgree(Head(batch).pred, Head(batch).tar) THEN 1 ELSE 0)
         + CountBoth(Tail(batch))

\* a plausible slip: the step is taken before the gradients are computed
trainStepsSwapped(i) ==
    <<<<"zero_grad", i>>, <<"step", i>>, <<"backward", i>>>>

\* the collaborator calls one pass of train()'s loop makes after the
\* statistics are updated: zero_grad, backward, step
trainSteps(i) ==
    <<<<"zero_grad", i>>, <<"backward", i>>, <<"step", i>>>>

\* validate()'s loop makes none
validateSteps(i) == <<>>

\* the collaborator calls every pass makes first: model(input), criterion
forwardCalls(i) == <<<<"forward", i>>, <<"loss", i>>>>

\* a plausible slip: the batch size is not passed to the statistic
recordUnweighted(e, value, n) == update(e.acc, value, 1)

\* acc.update(accuracy(output.data, target.data), input.size(0))
record(e, value, n) == update(e.acc, value, n)

\* train() is entered: fresh statistics, model.train()
TrainCall ==
    /\ entry = "epoch"
    /\ epoch.pc = "idle"
    /\ \E k \in 0..MaxBatches, py \in BOOLEAN :
          epoch' = [IdleEpoch EXCEPT !.fn = "train", !.pc = "loop",
                                     !.mode = "train", !.supply = k,
                                     !.pyScalar = py]
    /\ UNCHANGED <<entry, meter, touched, call, seen, tally, run>>

\* validate() is entered: fresh statistics, model.eval()
ValidateCall ==
    /\ entry = "epoch"
    /\ epoch.pc = "idle"
    /\ \E k \in 0..MaxBatches, py \in BOOLEAN :
          epoch' = [IdleEpoch EXCEPT !.fn = "validate", !.pc = "loop",
                                     !.mode = "eval", !.supply = k,
                                     !.pyScalar = py]
    /\ UNCHANGED <<entry, meter, touched, call, seen, tally, run>>

\* One pass of the loop over batch number i, shared by train() and
\* validate(): forward, loss, losses.update, accuracy, acc.update, then the
\* optimizer calls (steps).  An exception raised by accuracy() ends the call.
loopPass(e, batch, loss, steps) ==
    LET i == e.i + 1
        n == Len(batch)
        a == Scores[e.pyScalar][batch]
        fed == [e EXCEPT !.i = i,
                         !.calls = @ \o forwardCalls(i),
                         !.losses = update(@, loss, n)]
    IN  IF a.kind = "ZeroDivisionError"
        THEN [fed EXCEPT !.pc = "raised"]
        ELSE [fed EXCEPT !.acc = record(fed, a.v, n), !.calls = @ \o steps]

\* the samples of a batch count once the pass over it has completed
Tallied(t, e, batch) ==
    IF e.pc = "raised" THEN t
    ELSE [samples |-> t.samples + Len(batch), both |-> t.both + CountBoth(batch)]

TrainBatch ==
    /\ entry = "epoch"
    /\ epoch.fn = "train"
    /\ epoch.pc = "loop"
    /\ epoch.i < epoch.supply
    /\ \E batch \in EpochBatches, loss \in LossValues :
          /\ epoch' = loopPass(epoch, batch, loss, trainSteps(epoch.i + 1))
          /\ tally' = Tallied(tally, epoch', batch)
    /\ UNCHANGED <<entry, meter, touched, call, seen, run>>

ValidateBatch ==
    /\ entry = "epoch"
    /\ epoch.fn = "validate"
    /\ epoch.pc = "loop"
    /\ epoch.i < epoch.supply
    /\ \E batch \in EpochBatches, loss \in LossValues :
          /\ epoch' = loopPass(epoch, batch, loss, validateSteps(epoch.i + 1))
          /\ tally' = Tallied(tally, epoch', batch)
    /\ UNCHANGED <<entry, meter, touched, call, seen, run>>

\* the loader is exhausted: train() ends without a return statement
TrainReturn ==
    /\ entry = "epoch"
    /\ epoch.fn = "train"
    /\ epoch.pc = "loop"
    /\ epoch.i = epoch.supply
    /\ epoch' = [epoch EXCEPT !.pc = "done", !.returned = NoReturn]
    /\ UNCHANGED <<entry, meter, touched, call, seen, tally, run>>

\* the loader is exhausted: validate() ends without a return statement
ValidateReturn ==
    /\ entry = "epoch"
    /\ epoch.fn = "validate"
    /\ epoch.pc = "loop"
    /\ epoch.i = epoch.supply
    /\ epoch' = [epoch EXCEPT !.pc = "done", !.returned = NoReturn]
    /\ UNCHANGED <<entry, meter, touched, call, seen, tally, run>>

----------------------------------------------------------------------------
(* main() *)

\* args.num_folds is any int; range() of a negative number is empty
NumFolds == -1..MaxFolds

IdleRun ==
    [pc |-> "start", num_folds |-> 0, next |-> 0, fold |-> 0,
     requests |-> <<>>, loaders |-> <<>>, printed |-> <<>>, epochs |-> <<>>]

\* CornellGraspingDataset(..., fold=fold, split='train', ...)
trainRequest(fold) == [fold |-> fold, split |-> "train"]

\* a plausible slip: the validation set is built from the training split
valRequestCopied(fold) == [fold |-> fold, split |-> "train"]

\* CornellGraspingDataset(..., fold=fold, split='val', ...)
valRequest(fold) == [fold |-> fold, split |-> "val"]

\* args = parser.parse_args(); print(args)
ParseArgs ==
    /\ entry = "main"
    /\ run.pc = "start"
    /\ \E n \in NumFolds : run' = [run EXCEPT !.pc = "for", !.num_folds = n]
    /\ UNCHANGED <<entry, meter, touched, call, seen, epoch, tally>>

\* for fold in range(args.num_folds): the next index, and the first print
ForFold ==
    /\ entry = "main"
    /\ run.pc = "for"
    /\ run.next < run.num_folds
    /\ run' = [run EXCEPT !.pc = "train_data", !.fold = run.next,
                          !.next = @ + 1,
                          !.printed = Append(@, <<"creating", run.next>>)]
    /\ UNCHANGED <<entry, meter, touched, call, seen, epoch, tally>>

\* range() is exhausted: main() ends
ForExit ==
    /\ entry = "main"
    /\ run.pc = "for"
    /\ run.next >= run.num_folds
    /\ run' = [run EXCEPT !.pc = "done"]
    /\ UNCHANGED <<entry, meter, touched, call, seen, epoch, tally>>

TrainData ==
    /\ entry = "main"
    /\ run.pc = "train_data"
    /\ run' = [run EXCEPT !.pc = "train_loader",
                          !.requests = Append(@, trainRequest(run.fold))]
    /\ UNCHANGED <<entry, meter, touched, call, seen, epoch, tally>>

\* DataLoader(train_data, batch_size=32, shuffle=True, ...)
TrainLoader ==
    /\ entry = "main"
    /\ run.pc = "train_loader"
    /\ run' = [run EXCEPT !.pc = "val_data",
                          !.loaders = Append(@, [fold |-> run.fold,
                                                 split |-> "train",
                                                 shuffle |-> TRUE])]
    /\ UNCHANGED <<entry, meter, touched, call, seen, epoch, tally>>

ValData ==
    /\ entry = "main"
    /\ run.pc = "val_data"
    /\ run' = [run EXCEPT !.pc = "val_loader",
                          !.requests = Append(@, valRequest(run.fold))]
    /\ UNCHANGED <<entry, meter, touched, call, seen, epoch, tally>>

\* DataLoader(val_data, batch_size=32, shuffle=False, ...)
ValLoader ==
    /\ entry = "main"
    /\ run.pc = "val_loader"
    /\ run' = [run EXCEPT !.pc = "finished",
                          !.loaders = Append(@, [fold |-> run.fold,
                                                 split |-> "val",
                                                 shuffle |-> FALSE])]
    /\ UNCHANGED <<entry, meter, touched, call, seen, epoch, tally>>

\* print('Finished creating datasets.'): the last statement of the loop
\* body; neither train() nor validate() is called, so epochs stays empty
PrintFinished ==
    /\ entry = "main"
    /\ run.pc = "finished"
    /\ run' = [run EXCEPT !.pc = "for",
                          !.printed = Append(@, <<"finished", run.fold>>)]
    /\ UNCHANGED <<entry, meter, touched, call, seen, epoch, tally>>

----------------------------------------------------------------------------
(* Specifications *)

InitAt(e) ==
    /\ entry = e
    /\ meter = reset
    /\ touched = FALSE
    /\ call = IdleCall
    /\ seen = NothingSeen
    /\ epoch = IdleEpoch
    /\ tally = NoTally
    /\ run = IdleRun

NextMeter == MeterReset \/ MeterUpdate

NextAccuracy == AccuracyCall \/ AccuracyRow \/ AccuracyReturn

NextEpoch ==
    \/ TrainCall
    \/ ValidateCall
    \/ TrainBatch
    \/ ValidateBatch
    \/ TrainReturn
    \/ ValidateReturn

NextMain ==
    \/ ParseArgs
    \/ ForFold
    \/ ForExit
    \/ TrainData
    \/ TrainLoader
    \/ ValData
    \/ ValLoader
    \/ PrintFinished

Init == \E e \in {"meter", "accuracy", "epoch", "main"} : InitAt(e)

Next == NextMeter \/ NextAccuracy \/ NextEpoch \/ NextMain

Spec == Init /\ [][Next]_vars

SpecMeter == InitAt("meter") /\ [][NextMeter]_vars

SpecAccuracy == InitAt("accuracy") /\ [][NextAccuracy]_vars

SpecEpoch == InitAt("epoch") /\ [][NextEpoch]_vars

SpecMain == InitAt("main") /\ [][NextMain]_vars

----------------------------------------------------------------------------
(* Properties *)

\* C1: whenever count > 0 the stored average is sum / count, and whenever
\* count = 0 (at construction and after every reset) the average is 0.
C1_AverageIsSumOverCount ==
    /\ meter.count > 0 =>
          meter.avg[1] * meter.sum[2] * meter.count = meter.sum[1] * meter.avg[2]
    /\ meter.count = 0 => meter.avg = Zero

\* a meter reset after use and updated again, holding a fractional average
C1_Witness == touched /\ meter.count >= 2 /\ meter.avg[2] > 1

C3_AlwaysReturnsUnitInterval ==
    (call.pc \in {"returned", "raised"} /\ call.size > 0) =>
        /\ call.result.kind = "num"
        /\ call.result.v[1] >= 0
        /\ call.result.v[1] <= call.result.v[2]

\* C3 amended: a call on a non-empty batch in which no row is a pair of two
\* zero-area boxes returns a value in [0,1], and so does every call that
\* returns at all.
C3_UnitIntervalWhenReturned ==
    /\ (call.pc = "returned" /\ call.size > 0) =>
          /\ call.result.kind = "num"
          /\ call.result.v[1] >= 0
          /\ call.result.v[1] <= call.result.v[2]
    /\ ~seen.degenerate => call.pc # "raised"

\* a returned value strictly inside the interval, no degenerate row
C3_Witness ==
    /\ call.pc = "returned"
    /\ ~seen.degenerate
    /\ call.result.kind = "num"
    /\ 0 < call.result.v[1]
    /\ call.result.v[1] < call.result.v[2]

\* C4 as stated: a non-empty batch whose every row has prediction = target,
\* of any non-negative width and height, gives exactly 1.
C4_IdenticalGivesOne ==
    (call.pc \in {"returned", "raised"} /\ call.size > 0 /\ seen.same) =>
        call.result = Num(<<1, 1>>)

\* C4 amended: a non-empty batch whose every row has prediction = target,
\* with positive width and height, gives exactly 1.
C4_IdenticalPositiveGivesOne ==
    (call.pc \in {"returned", "raised"} /\ call.size > 0 /\ seen.same
        /\ seen.positive) =>
        (call.pc = "returned" /\ call.result = Num(<<1, 1>>))

\* two identical rows of positive area, scored 1
C4_Witness ==
    /\ call.pc = "returned"
    /\ call.size = 2
    /\ seen.same
    /\ seen.positive
    /\ call.result = Num(<<1, 1>>)

\* C5: the dataset requests of main() are, in order, (0, train), (0, val),
\* (1, train), (1, val), ...: both splits of a fold before the next fold,
\* and exactly num_folds folds once main() ends.
C5_FoldsAscendingTrainThenVal ==
    LET n == Len(run.requests)
    IN  /\ \A k \in 1..n :
              run.requests[k] = [fold |-> (k - 1) \div 2,
                                 split |-> IF k % 2 = 1 THEN "train" ELSE "val"]
        /\ run.pc = "for" => n = 2 * run.next
        /\ run.pc = "done" => n = 2 * Max(run.num_folds, 0)

\* main() has ended after five folds
C5_Witness == run.pc = "done" /\ run.num_folds = 5 /\ Len(run.requests) = 10

\* C6: every fold reported finished has had train() or validate() run on
\* its loaders.
C6_EpochsRunBeforeFoldReported ==
    \A k \in 1..Len(run.printed) :
        run.printed[k][1] = "finished" =>
            \E j \in 1..Len(run.epochs) : run.epochs[j].fold = run.printed[k][2]

\* the calls a complete pass over batch i makes, per the contract
PassCalls(fn, i) ==
    IF fn = "train"
    THEN <<<<"forward", i>>, <<"loss", i>>, <<"zero_grad", i>>,
           <<"backward", i>>, <<"step", i>>>>
    ELSE <<<<"forward", i>>, <<"loss", i>>>>

RECURSIVE EpochCalls(_, _)
EpochCalls(fn, k) ==
    IF k = 0 THEN <<>> ELSE EpochCalls(fn, k - 1) \o PassCalls(fn, k)

IsPrefix(s, t) == Len(s) <= Len(t) /\ s = SubSeq(t, 1, Len(s))

\* C7: the collaborator calls of train() and validate() are, batch by
\* batch in the loader's order, forward and loss, then for train() only
\* zero_grad, backward, step; every batch of the loader once when the call
\* ends; validate() never touches the optimizer.
C7_BatchesInOrderOptimizerOnlyInTrain ==
    /\ IsPrefix(epoch.calls, EpochCalls(epoch.fn, epoch.supply))
    /\ epoch.pc = "loop" => epoch.calls = EpochCalls(epoch.fn, epoch.i)
    /\ epoch.pc = "done" => epoch.calls = EpochCalls(epoch.fn, epoch.supply)
    /\ epoch.fn = "validate" =>
          \A k \in 1..Len(epoch.calls) :
              epoch.calls[k][1] \notin {"zero_grad", "backward", "step"}

\* train() has ended after two batches
C7_Witness == epoch.fn = "train" /\ epoch.pc = "done" /\ epoch.supply = 2

\* C9: after any completed batches, the accuracy statistic counts the
\* samples seen and averages to matching samples over samples seen.
C9_AccuracyIsMatchesOverSamples ==
    tally.samples > 0 =>
        /\ epoch.acc.count = tally.samples
        /\ epoch.acc.avg[1] * tally.samples = tally.both * epoch.acc.avg[2]

\* validate() after one batch of 4 samples, 3 of them matching: 0.75
C9_Witness ==
    /\ epoch.fn = "validate"
    /\ epoch.i = 1
    /\ tally = [samples |-> 4, both |-> 3]
    /\ epoch.acc.avg = <<3, 4>>

\* C8: accuracy() on a batch of size 0 ends in an InvalidBatchSize error.
C8_EmptyBatchIsRejected ==
    (call.pc \in {"returned", "raised"} /\ call.size = 0) =>
        call.result.kind = "InvalidBatchSize"

\* C10: when the loader is exhausted train() and validate() hand their
\* final loss and accuracy statistics back to the caller.
C10_StatisticsReturned ==
    epoch.pc = "done" =>
        /\ epoch.returned.kind = "stats"
        /\ epoch.returned.losses = epoch.losses
        /\ epoch.returned.acc = epoch.acc

====
